---------------------------- MODULE Spec2Model ----------------------------
(***************************************************************************)
(* Model of backend/main.py of gcp_terraform_chatbot: the change-set       *)
(* orchestrator (/chat, /approve, /webhook/jira over the two process-wide  *)
(* tables), the named-block patcher (replace_or_insert_block,              *)
(* apply_block_changes) and the unified-diff engine (apply_diff_to_files). *)
(*                                                                         *)
(* Text is modelled as what Python holds: a string is a sequence of        *)
(* one-character strings, so splitting, stripping, joining and searching   *)
(* are computed character by character.  Positions are 1-based here and    *)
(* 0-based in the source.                                                  *)
(***************************************************************************)
EXTENDS Integers, Sequences, FiniteSets, TLC

(***************************************************************************)
(* Bounds of the model.                                                    *)
(***************************************************************************)
\* Number of requests the server handles at the same time (the size of the
\* thread pool, with the event loop as one more).
MaxInFlight == 2
\* Number of requests that arrive in one behaviour.
MaxRequests == 3
\* Number of lines of a file that a diff is produced for.
MaxLines == 2

(***************************************************************************)
(* Strings.                                                                *)
(***************************************************************************)
NL == <<"\n">>

\* The characters Python's \s and str.strip() treat as whitespace, among the
\* characters the model's texts are written with.
Whitespace == {" ", "\n", "\t"}

\* The least and the greatest member of a non-empty set of positions.
Min(S) == CHOOSE a \in S : \A b \in S : a <= b
Max(S) == CHOOSE a \in S : \A b \in S : b <= a

\* The least member of S, or none when S is empty.
MinOr(S, none) == IF S = {} THEN none ELSE Min(S)

\* The positions of s that hold something other than whitespace.
Solid(s) == {i \in DOMAIN s : s[i] \notin Whitespace}

\* str.rstrip() and str.strip(): s up to its last, and from its first to its
\* last, character that is not whitespace.
StripTo(s, solid) ==
    IF solid = {} THEN <<>> ELSE SubSeq(s, Min(solid), Max(solid))
rstrip(s) == SubSeq(s, 1, Max(Solid(s) \cup {0}))
strip(s)  == StripTo(s, Solid(s))

\* s[p:].startswith(pre), p 1-based.
StartsWithAt(s, p, pre) ==
    /\ p >= 1
    /\ p + Len(pre) - 1 <= Len(s)
    /\ SubSeq(s, p, p + Len(pre) - 1) = pre

startswith(s, pre) == StartsWithAt(s, 1, pre)

\* First position >= p holding a non-whitespace character, Len(s)+1 if none:
\* where a greedy \s* started at p stops.
SkipWhitespace(s, p) ==
    IF p > Len(s) THEN p
    ELSE MinOr({q \in p..Len(s) : s[q] \notin Whitespace}, Len(s) + 1)

\* Where ^ matches under re.MULTILINE.
AtLineStart(s, p) == p = 1 \/ (p - 1 <= Len(s) /\ s[p - 1] = "\n")

\* First position >= p where sub occurs in s, 0 if none (str.find).
FindFrom(s, p, sub) == MinOr({q \in p..Len(s) : StartsWithAt(s, q, sub)}, 0)

RECURSIVE Concat(_)
Concat(ss) == IF ss = <<>> THEN <<>> ELSE Head(ss) \o Concat(Tail(ss))

\* A value that may be None (a missing key of a table, a name the parser has
\* not read): set is FALSE for None.
Absent == [set |-> FALSE, val |-> <<>>]
Entry(v) == [set |-> TRUE, val |-> v]

\* Python truthiness of a str or list that may be None.
Truthy(e) == e.set /\ e.val # <<>>


(***************************************************************************)
(* Named-block patcher: replace_or_insert_block.                           *)
(***************************************************************************)
\* r when an opening delimiter of opens stands at position r, 0 otherwise.
OpenAt(s, r, opens) == IF r <= Len(s) /\ s[r] \in opens THEN r ELSE 0

\* =\s*([\[\{]) at position q.
AssignOpenAt(s, q) ==
    IF q <= Len(s) /\ s[q] = "="
    THEN OpenAt(s, SkipWhitespace(s, q + 1), {"[", "{"}) ELSE 0

\* assign_pattern tried at position p: ^block_id\s*=\s*([\[\{]).  The position
\* of the opening delimiter when it matches there, 0 otherwise.
AssignMatchAt(s, p, block_id) ==
    IF AtLineStart(s, p) /\ StartsWithAt(s, p, block_id)
    THEN AssignOpenAt(s, SkipWhitespace(s, p + Len(block_id))) ELSE 0

\* block_header_pattern tried at position p: ^block_id\s*\{.
HeaderMatchAt(s, p, block_id) ==
    IF AtLineStart(s, p) /\ StartsWithAt(s, p, block_id)
    THEN OpenAt(s, SkipWhitespace(s, p + Len(block_id)), {"{"}) ELSE 0

\* A search that gives the last match in the text, not the first.
AssignSearchLast(s, block_id) ==
    Max({p \in DOMAIN s : AssignMatchAt(s, p, block_id) # 0} \cup {0})

\* pattern.search(file_content): where the leftmost match starts, 0 if there
\* is none.
AssignSearch(s, block_id) ==
    MinOr({p \in DOMAIN s : AssignMatchAt(s, p, block_id) # 0}, 0)

HeaderSearch(s, block_id) ==
    MinOr({p \in DOMAIN s : HeaderMatchAt(s, p, block_id) # 0}, 0)

\* A depth count that stops at the first closing delimiter it meets.
ScanCloseFirst(s, i, open_bracket, close_bracket, depth) ==
    MinOr({c \in i..Len(s) : s[c] = close_bracket}, 0)

\* The while loop of the depth count, from position i with the given depth:
\* the position of the closing delimiter that brings depth to 0, 0 if the
\* text ends first.
RECURSIVE ScanClose(_, _, _, _, _)
ScanClose(s, i, open_bracket, close_bracket, depth) ==
    IF i > Len(s) THEN 0
    ELSE IF s[i] = open_bracket
         THEN ScanClose(s, i + 1, open_bracket, close_bracket, depth + 1)
    ELSE IF s[i] = close_bracket
         THEN IF depth - 1 = 0 THEN i
              ELSE ScanClose(s, i + 1, open_bracket, close_bracket, depth - 1)
    ELSE ScanClose(s, i + 1, open_bracket, close_bracket, depth)

\* A splice whose end is the closing delimiter itself, not one past it.
SpliceKeepClose(s, start, close, new_block) ==
    SubSeq(s, 1, start - 1) \o new_block \o NL \o SubSeq(s, close, Len(s))

\* file_content[:start] + new_block + '\n' + file_content[end:]
Splice(s, start, close, new_block) ==
    SubSeq(s, 1, start - 1) \o new_block \o NL \o SubSeq(s, close + 1, Len(s))

\* An append that keeps the trailing whitespace of the text.
AppendAtEndNoStrip(s, new_block) == s \o NL \o NL \o new_block \o NL

\* file_content.rstrip() + '\n\n' + new_block + '\n'
AppendAtEnd(s, new_block) == rstrip(s) \o NL \o NL \o new_block \o NL

\* close_bracket = ']' if open_bracket == '[' else '}'
Closer(open_bracket) == IF open_bracket = "[" THEN "]" ELSE "}"

\* What follows the depth count: the span from start to the closing delimiter
\* at close is replaced, or the block is appended when there is none.
ReplaceSpan(file_content, start, close, new_block) ==
    IF close # 0 THEN Splice(file_content, start, close, new_block)
    ELSE AppendAtEnd(file_content, new_block)

\* A header that starts at start and opens at open: the depth count runs from
\* the character after the opening delimiter.
ReplaceFrom(file_content, start, open, new_block) ==
    ReplaceSpan(file_content, start,
                ScanClose(file_content, open + 1, file_content[open],
                          Closer(file_content[open]), 1),
                new_block)

\* Lines 346-368: the block form, its header search having given start.
TryHeader(file_content, block_id, start, new_block) ==
    IF start # 0
    THEN ReplaceFrom(file_content, start,
                     HeaderMatchAt(file_content, start, block_id), new_block)
    ELSE AppendAtEnd(file_content, new_block)

\* Lines 324-345: the assignment form, its search having given start; the
\* block form is tried only when the assignment form matches nowhere.
TryAssign(file_content, block_id, start, new_block) ==
    IF start # 0
    THEN ReplaceFrom(file_content, start,
                     AssignMatchAt(file_content, start, block_id), new_block)
    ELSE TryHeader(file_content, block_id,
                   HeaderSearch(file_content, block_id), new_block)

replace_or_insert_block(file_content, block_id, new_block) ==
    TryAssign(file_content, block_id, AssignSearch(file_content, block_id),
              new_block)

(***************************************************************************)
(* parse_block_changes: the model response to {filename: [(id, content)]}. *)
(* The dict is a sequence of [filename, changes] in insertion order.       *)
(***************************************************************************)
FileTag  == <<"F", "i", "l", "e", ":", " ">>
BlockTag == <<"B", "l", "o", "c", "k", ":", " ">>
\* A TLA+ string cannot hold the backquote: "~" stands for it in every text.
Fence    == <<"~", "~", "~">>
HclOpen  == Fence \o <<"h", "c", "l", "\n">>

\* The pattern File: (.*?)\nBlock: (.*?)\n```hcl\n([\s\S]*?)``` tried at p,
\* the two names ending at e1 and e2 and the closing fence starting at f (0
\* for what the text lacks).
BlockMatch(s, p, e1, e2, f) ==
    IF /\ StartsWithAt(s, p, FileTag)
       /\ e1 # 0 /\ StartsWithAt(s, e1 + 1, BlockTag)
       /\ e2 # 0 /\ StartsWithAt(s, e2 + 1, HclOpen)
       /\ f # 0
    THEN [found    |-> TRUE,
          filename |-> strip(SubSeq(s, p + Len(FileTag), e1 - 1)),
          block_id |-> strip(SubSeq(s, e1 + 1 + Len(BlockTag), e2 - 1)),
          block_content |-> strip(SubSeq(s, e2 + 1 + Len(HclOpen), f - 1)),
          end      |-> f + Len(Fence)]
    ELSE [found |-> FALSE, filename |-> <<>>, block_id |-> <<>>,
          block_content |-> <<>>, end |-> 0]

\* The first sub that starts after position e and skip more characters.
FindAfter(s, e, skip, sub) ==
    IF e = 0 THEN 0 ELSE FindFrom(s, e + 1 + skip, sub)

\* '.' does not match a newline, so each lazy group ends at the first
\* newline; the lazy [\s\S]*? ends at the first fence.
BlockPatternE2(s, p, e1, e2) ==
    BlockMatch(s, p, e1, e2, FindAfter(s, e2, Len(HclOpen), Fence))

BlockPatternE1(s, p, e1) ==
    BlockPatternE2(s, p, e1, FindAfter(s, e1, Len(BlockTag), NL))

BlockPatternAt(s, p) ==
    BlockPatternE1(s, p, FindFrom(s, p + Len(FileTag), NL))

\* changes[filename].append((block_id, block_content)), creating the list first
\* when the filename is new.
RECURSIVE AddChange(_, _, _)
AddChange(changes, filename, change) ==
    IF changes = <<>> THEN << [filename |-> filename, changes |-> <<change>>] >>
    ELSE IF Head(changes).filename = filename
         THEN << [filename |-> filename,
                  changes  |-> Append(Head(changes).changes, change)] >> \o Tail(changes)
    ELSE << Head(changes) >> \o AddChange(Tail(changes), filename, change)

\* re.finditer: matches are taken left to right and do not overlap; the next
\* one is the first that starts at p or later.
RECURSIVE ParseFrom(_, _, _)
ParseMatch(s, m, changes) ==
    ParseFrom(s, m.end,
              AddChange(changes, m.filename,
                        [block_id |-> m.block_id, new_block |-> m.block_content]))

ParseHits(s, hits, changes) ==
    IF hits = {} THEN changes
    ELSE ParseMatch(s, BlockPatternAt(s, Min(hits)), changes)

ParseFrom(s, p, changes) ==
    ParseHits(s, {q \in p..Len(s) : BlockPatternAt(s, q).found}, changes)

parse_block_changes(response) == ParseFrom(response, 1, <<>>)

(***************************************************************************)
(* apply_block_changes.  files is the snapshot, a sequence of              *)
(* [path, content]; the result maps path -> content.                       *)
(***************************************************************************)
Paths(files) == {files[n].path : n \in DOMAIN files}

\* {f['path']: f['content'] for f in files}: a later entry of a repeated path
\* wins.
ContentOf(files, path) ==
    LET ns == {n \in DOMAIN files : files[n].path = path}
    IN  files[CHOOSE n \in ns : \A m \in ns : m <= n].content

FilesDict(files) == [p \in Paths(files) |-> ContentOf(files, p)]

RECURSIVE ApplyChangesToContent(_, _)
ApplyChangesToContent(content, changes) ==
    IF changes = <<>> THEN content
    ELSE ApplyChangesToContent(
            replace_or_insert_block(content, Head(changes).block_id,
                                    Head(changes).new_block),
            Tail(changes))

RECURSIVE ApplyBlockLoop(_, _)
ApplyBlockLoop(updated_files, block_changes) ==
    IF block_changes = <<>> THEN updated_files
    ELSE IF Head(block_changes).filename \notin DOMAIN updated_files
         THEN ApplyBlockLoop(updated_files, Tail(block_changes))
         ELSE ApplyBlockLoop(
                [updated_files EXCEPT ![Head(block_changes).filename] =
                    ApplyChangesToContent(@, Head(block_changes).changes)],
                Tail(block_changes))

apply_block_changes(files, block_changes) ==
    ApplyBlockLoop(FilesDict(files), block_changes)

(***************************************************************************)
(* apply_diff_to_files: the text as the function first rewrites it.        *)
(***************************************************************************)
\* str.splitlines(keepends=True), and the iteration of io.StringIO: the text
\* from position p cut after each newline; e is where the next newline is.
RECURSIVE SplitKeep(_, _, _)
SplitKeepAt(s, p, e, acc) ==
    IF e = 0 THEN Append(acc, SubSeq(s, p, Len(s)))
    ELSE SplitKeep(s, e + 1, Append(acc, SubSeq(s, p, e)))

SplitKeep(s, p, acc) ==
    IF p > Len(s) THEN acc ELSE SplitKeepAt(s, p, FindFrom(s, p, NL), acc)

splitlines_keepends(s) == SplitKeep(s, 1, <<>>)

DropNewline(l) ==
    IF l # <<>> /\ l[Len(l)] = "\n" THEN SubSeq(l, 1, Len(l) - 1) ELSE l


\* str.splitlines()
DropNewlines(ls) == [n \in DOMAIN ls |-> DropNewline(ls[n])]
splitlines(s) == DropNewlines(splitlines_keepends(s))

\* '\n'.join(ls): a newline between two lines, none after the last.
RECURSIVE JoinLines(_)
JoinLines(ls) ==
    IF ls = <<>> THEN <<>>
    ELSE IF Len(ls) = 1 THEN ls[1]
    ELSE ls[1] \o NL \o JoinLines(Tail(ls))

FenceDiff == Fence \o <<"d", "i", "f", "f">>

\* Where $ matches under re.MULTILINE.
AtLineEnd(s, p) == p = Len(s) + 1 \/ (p <= Len(s) /\ s[p] = "\n")

\* The two alternatives of r'^```diff\s*|```$' tried at p: the opening fence
\* takes all the whitespace after it, a fence that ends a line goes alone.
OpeningFenceAt(s, p) == AtLineStart(s, p) /\ StartsWithAt(s, p, FenceDiff)
ClosingFenceAt(s, p) == StartsWithAt(s, p, Fence) /\ AtLineEnd(s, p + Len(Fence))

\* re.sub(r'^```diff\s*|```$', '', s, flags=re.MULTILINE) from position p, m
\* being where the next match starts.
RECURSIVE RemoveFences(_, _)
RemoveFenceAt(s, p, m) ==
    IF m = 0 THEN SubSeq(s, p, Len(s))
    ELSE SubSeq(s, p, m - 1)
            \o RemoveFences(s, IF OpeningFenceAt(s, m)
                                THEN SkipWhitespace(s, m + Len(FenceDiff))
                                ELSE m + Len(Fence))

RemoveFences(s, p) ==
    RemoveFenceAt(s, p,
        MinOr({q \in p..Len(s) : OpeningFenceAt(s, q) \/ ClosingFenceAt(s, q)}, 0))

NoNewlineMarker ==
    <<"\\", " ", "N", "o", " ", "n", "e", "w", "l", "i", "n", "e", " ",
      "a", "t", " ", "e", "n", "d", " ", "o", "f", " ", "f", "i", "l", "e">>

NotMarker(l) == strip(l) # NoNewlineMarker

\* Lines 111 and 113: diff_text as the rest of the function sees it.
CleanDiffText(diff_text) ==
    JoinLines(SelectSeq(splitlines(RemoveFences(strip(diff_text), 1)), NotMarker))

\* Line 114: path -> the lines of the file, each with its newline.
FileMap(files) ==
    [p \in Paths(files) |-> splitlines_keepends(ContentOf(files, p))]

\* The first value of updated_files forgets the snapshot.
InitialUpdatedEmpty(files) == [p \in {} |-> <<>>]

\* Line 115: updated_files starts as every snapshot path with its content.
InitialUpdated(files) ==
    [p \in Paths(files) |-> Concat(splitlines_keepends(ContentOf(files, p)))]

(***************************************************************************)
(* PatchSet(io.StringIO(text)) of the unidiff library, as far as           *)
(* apply_diff_to_files reads its result: the patched files with their      *)
(* source and target names, their hunks with source_start, and the lines   *)
(* of each hunk with line_type and value.  The texts of the model hold no  *)
(* 'diff --git' line, and a backslash only in the no-newline marker.       *)
(***************************************************************************)
SourcePrefix == <<"-", "-", "-", " ">>
TargetPrefix == <<"+", "+", "+", " ">>
HunkPrefix   == <<"@", "@", " ", "-">>
HunkSuffix   == <<" ", "@", "@">>
Digits == <<"0", "1", "2", "3", "4", "5", "6", "7", "8", "9">>
IsDigit(c) == \E n \in DOMAIN Digits : Digits[n] = c
DigitValue(c) == (CHOOSE n \in DOMAIN Digits : Digits[n] = c) - 1

\* First position >= p of s that holds no digit.
DigitsEnd(s, p) ==
    IF p > Len(s) THEN p
    ELSE MinOr({q \in p..Len(s) : ~IsDigit(s[q])}, Len(s) + 1)

\* int() of the digits s[a..b].
RECURSIVE ParseInt(_, _, _)
ParseInt(s, a, b) ==
    IF b < a THEN 0 ELSE 10 * ParseInt(s, a, b - 1) + DigitValue(s[b])

\* First position >= p of s that holds a tab or a newline, Len(s)+1 if none:
\* where [^\t\n]+ stops.
NameEnd(s, p) ==
    IF p > Len(s) THEN p
    ELSE MinOr({q \in p..Len(s) : s[q] \in {"\t", "\n"}}, Len(s) + 1)

\* RE_SOURCE_FILENAME and RE_TARGET_FILENAME: the prefix, then a name of at
\* least one character.
IsNameLine(l, prefix) ==
    startswith(l, prefix) /\ NameEnd(l, Len(prefix) + 1) > Len(prefix) + 1
NameOf(l, prefix) ==
    SubSeq(l, Len(prefix) + 1, NameEnd(l, Len(prefix) + 1) - 1)

\* (\d+)(?:,(\d+))? with the first number in s[p..q-1] and, when r > q + 1,
\* the second in s[q+1..r-1]: the two numbers (the second is 1 when it is
\* left out, as Hunk.__init__ sets it) and the position after them; ok is
\* FALSE when no digit stands at p.
RangeOf(s, p, q, r) ==
    [ok     |-> q > p,
     start  |-> ParseInt(s, p, q - 1),
     length |-> IF r > q + 1 THEN ParseInt(s, q + 1, r - 1) ELSE 1,
     end    |-> IF r > q + 1 THEN r ELSE q]

RangeFrom(s, p, q) ==
    RangeOf(s, p, q, IF q <= Len(s) /\ s[q] = "," THEN DigitsEnd(s, q + 1) ELSE q)

RangeAt(s, p) == RangeFrom(s, p, DigitsEnd(s, p))

\* RE_HUNK_HEADER: @@ -a,b +c,d @@
HunkHeaderOf(l, src, tgt) ==
    [ok |-> /\ startswith(l, HunkPrefix)
            /\ src.ok
            /\ StartsWithAt(l, src.end, <<" ", "+">>)
            /\ tgt.ok
            /\ StartsWithAt(l, tgt.end, HunkSuffix),
     source_start  |-> src.start,
     source_length |-> src.length,
     target_start  |-> tgt.start,
     target_length |-> tgt.length]

HunkHeaderFrom(l, src) == HunkHeaderOf(l, src, RangeAt(l, src.end + 2))

HunkHeader(l) == HunkHeaderFrom(l, RangeAt(l, Len(HunkPrefix) + 1))

LineTypes == {"+", "-", " ", "\\"}

\* RE_HUNK_EMPTY_BODY_LINE, then RE_HUNK_BODY_LINE: the type and the value of
\* a line inside a hunk.  A line that is only a newline is a context line.
BodyLine(l) ==
    IF l = NL THEN [ok |-> TRUE, line_type |-> " ", value |-> NL]
    ELSE IF l # <<>> /\ l[1] \in LineTypes
         THEN [ok |-> TRUE, line_type |-> l[1], value |-> Tail(l)]
    ELSE [ok |-> FALSE, line_type |-> "", value |-> <<>>]

\* What reading the lines of a hunk gives: the error raised or "", the lines
\* of the hunk, and the line of the text to go on from.
HunkRead(error, hunk_lines, next) ==
    [error |-> error, hunk_lines |-> hunk_lines, next |-> next]

\* PatchedFile._parse_hunk: the lines after a hunk header h, from line n, with
\* the two running line numbers; acc holds the lines of the hunk so far.
RECURSIVE ParseHunkBody(_, _, _, _, _, _)
\* The line b has been counted: the numbers are now s2 and t2.
HunkLineCounted(ls, n, s2, t2, h, acc, b) ==
    IF s2 > h.source_start + h.source_length \/ t2 > h.target_start + h.target_length
    THEN HunkRead("Hunk is longer than expected", <<>>, n)
    ELSE IF s2 = h.source_start + h.source_length
            /\ t2 = h.target_start + h.target_length
    THEN HunkRead("", Append(acc, [line_type |-> b.line_type, value |-> b.value]),
                  n + 1)
    ELSE ParseHunkBody(ls, n + 1, s2, t2, h,
                       Append(acc, [line_type |-> b.line_type, value |-> b.value]))

HunkLine(ls, n, src_no, tgt_no, h, acc, b) ==
    IF ~b.ok THEN HunkRead("Hunk diff line expected", <<>>, n)
    ELSE HunkLineCounted(ls, n,
            src_no + (IF b.line_type \in {"-", " "} THEN 1 ELSE 0),
            tgt_no + (IF b.line_type \in {"+", " "} THEN 1 ELSE 0),
            h, acc, b)

ParseHunkBody(ls, n, src_no, tgt_no, h, acc) ==
    IF n > Len(ls)
    THEN IF src_no < h.source_start + h.source_length
            \/ tgt_no < h.target_start + h.target_length
         THEN HunkRead("Hunk is shorter than expected", <<>>, n)
         ELSE HunkRead("", acc, n)
    ELSE HunkLine(ls, n, src_no, tgt_no, h, acc, BodyLine(ls[n]))

\* The patched files with a hunk added to the last of them.
AddHunk(patch, hunk) ==
    [patch EXCEPT ![Len(patch)].hunks = Append(@, hunk)]

\* PatchSet._parse from line n.  current says whether current_file is set (it
\* is then the last patched file); source_file is the name the last '--- '
\* line gave, or None.
RECURSIVE ParseLines(_, _, _, _, _)
\* The body of the hunk with header h has been read, with result b.
HunkParsed(ls, source_file, patch, h, b) ==
    IF b.error # "" THEN [error |-> b.error, patch |-> patch]
    ELSE ParseLines(ls, b.next, TRUE, source_file,
                    AddHunk(patch, [source_start |-> h.source_start,
                                    hunk_lines   |-> b.hunk_lines]))

\* Line l of the text, h being what RE_HUNK_HEADER makes of it.
ParseLine(ls, n, current, source_file, patch, l, h) ==
    IF IsNameLine(l, SourcePrefix)
    THEN ParseLines(ls, n + 1, FALSE, Entry(NameOf(l, SourcePrefix)), patch)
    ELSE IF IsNameLine(l, TargetPrefix)
    THEN IF current
         THEN [error |-> "Target without source", patch |-> patch]
         ELSE ParseLines(ls, n + 1, TRUE, source_file,
                 Append(patch, [source_file |-> source_file,
                                target_file |-> NameOf(l, TargetPrefix),
                                hunks |-> <<>>]))
    ELSE IF h.ok
    THEN IF ~current
         THEN [error |-> "Unexpected hunk found", patch |-> patch]
         ELSE HunkParsed(ls, source_file, patch, h,
                 ParseHunkBody(ls, n + 1, h.source_start, h.target_start, h, <<>>))
    ELSE IF l = NL /\ current
    THEN ParseLines(ls, n + 1, TRUE, source_file, patch)
    ELSE ParseLines(ls, n + 1, FALSE, source_file, patch)

ParseLines(ls, n, current, source_file, patch) ==
    IF n > Len(ls) THEN [error |-> "", patch |-> patch]
    ELSE ParseLine(ls, n, current, source_file, patch, ls[n], HunkHeader(ls[n]))

PatchSet(text) == ParseLines(splitlines_keepends(text), 1, FALSE, Absent, <<>>)

(***************************************************************************)
(* apply_diff_to_files: the per-file loop and the three tiers.             *)
(***************************************************************************)
PrefixA == <<"a", "/">>
PrefixB == <<"b", "/">>
DevNull == <<"/", "d", "e", "v", "/", "n", "u", "l", "l">>

\* if path.startswith('a/') or path.startswith('b/'): path = path[2:]
StripPrefix(path) ==
    IF startswith(path, PrefixA) \/ startswith(path, PrefixB)
    THEN SubSeq(path, Len(PrefixA) + 1, Len(path)) ELSE path

\* patched_file.path, a property of unidiff's PatchedFile: the source name, or
\* the target name when there is no source, with a leading a/ or b/ taken off.
PatchedFilePath(patched_file) ==
    StripPrefix(IF ~patched_file.source_file.set \/ patched_file.source_file.val = DevNull
                THEN patched_file.target_file
                ELSE patched_file.source_file.val)

\* Lines 123-125: the prefix is taken off the property's value once more.
DiffPath(patched_file) == StripPrefix(PatchedFilePath(patched_file))

\* for hunk in patched_file: for line in hunk
RECURSIVE AllHunkLines(_)
AllHunkLines(hunks) ==
    IF hunks = <<>> THEN <<>>
    ELSE Head(hunks).hunk_lines \o AllHunkLines(Tail(hunks))

is_added(hl)   == hl.line_type = "+"
is_removed(hl) == hl.line_type = "-"
is_context(hl) == hl.line_type = " "

Values(hls) == [n \in DOMAIN hls |-> hls[n].value]
IsAddedOrContext(hl) == is_added(hl) \/ is_context(hl)

\* Lines 137-142: the lines of a file the snapshot does not hold.
AddedAndContext(hls) == Values(SelectSeq(hls, IsAddedOrContext))

IndexError == [error |-> TRUE, i |-> 0, new_lines |-> <<>>]

\* Lines 152-154; i counts from 0 as in the source, and reading original[i]
\* with i >= len(original) raises IndexError.
RECURSIVE CopyBefore(_, _, _, _)
CopyBefore(original, i, new_lines, source_start) ==
    IF i < source_start - 1
    THEN IF i >= Len(original) THEN IndexError
         ELSE CopyBefore(original, i + 1, Append(new_lines, original[i + 1]),
                         source_start)
    ELSE [error |-> FALSE, i |-> i, new_lines |-> new_lines]

\* Lines 156-163.
RECURSIVE ApplyHunkLines(_, _, _, _)
ApplyHunkLines(original, i, new_lines, hls) ==
    IF hls = <<>> THEN [error |-> FALSE, i |-> i, new_lines |-> new_lines]
    ELSE IF is_added(Head(hls))
         THEN ApplyHunkLines(original, i, Append(new_lines, Head(hls).value), Tail(hls))
    ELSE IF is_context(Head(hls))
         THEN IF i >= Len(original) THEN IndexError
              ELSE ApplyHunkLines(original, i + 1,
                                  Append(new_lines, original[i + 1]), Tail(hls))
    ELSE IF is_removed(Head(hls))
         THEN ApplyHunkLines(original, i + 1, new_lines, Tail(hls))
    ELSE ApplyHunkLines(original, i, new_lines, Tail(hls))

\* Lines 146-167: the strict application; error says IndexError was raised.
RECURSIVE ApplyHunks(_, _, _, _)
\* The lines of the first hunk have been applied, with result a.
HunkApplied(original, hunks, a) ==
    IF a.error THEN [error |-> TRUE, content |-> <<>>]
    ELSE ApplyHunks(original, a.i, a.new_lines, Tail(hunks))

\* The lines before the first hunk have been copied, with result c.
HunkReached(original, hunks, c) ==
    IF c.error THEN [error |-> TRUE, content |-> <<>>]
    ELSE HunkApplied(original, hunks,
            ApplyHunkLines(original, c.i, c.new_lines, Head(hunks).hunk_lines))

ApplyHunks(original, i, new_lines, hunks) ==
    IF hunks = <<>>
    THEN [error |-> FALSE,
          content |-> Concat(new_lines \o SubSeq(original, i + 1, Len(original)))]
    ELSE HunkReached(original, hunks,
            CopyBefore(original, i, new_lines, Head(hunks).source_start))

SourceA   == SourcePrefix \o PrefixA
TargetB   == TargetPrefix \o PrefixB
AtAt      == <<"@", "@">>
FileColon == <<"F", "i", "l", "e", ":">>

\* Lines 176-181: a stripped line value that looks like diff syntax.
StartsLikeSyntax(v) ==
    \/ startswith(v, SourceA)
    \/ startswith(v, TargetB)
    \/ startswith(v, AtAt)
    \/ startswith(v, FileColon)


\* Lines 172-183: the reconstructive fallback.
IsFallbackLine(hl) == IsAddedOrContext(hl) /\ ~StartsLikeSyntax(strip(hl.value))
fallback_lines(hls) == Values(SelectSeq(hls, IsFallbackLine))

\* updated_files[path] = content
Put(updated_files, path, content) ==
    [p \in DOMAIN updated_files \cup {path} |->
        IF p = path THEN content ELSE updated_files[p]]

\* Lines 145-184 for a file the snapshot holds, strict being what the strict
\* application gave.
PatchExisting(path, patched_file, strict) ==
    IF ~strict.error
    THEN [path |-> path, tier |-> "strict", content |-> strict.content]
    ELSE [path |-> path, tier |-> "reconstructive",
          content |-> Concat(fallback_lines(AllHunkLines(patched_file.hunks)))]

\* What the loop does for the patched file of a path: the content it stores
\* and the tier that produced it.
PatchPath(file_map, patched_file, path) ==
    IF path \notin DOMAIN file_map
    THEN [path |-> path, tier |-> "created",
          content |-> Concat(AddedAndContext(AllHunkLines(patched_file.hunks)))]
    ELSE PatchExisting(path, patched_file,
            ApplyHunks(file_map[path], 0, <<>>, patched_file.hunks))

PatchOne(file_map, patched_file) ==
    PatchPath(file_map, patched_file, DiffPath(patched_file))

\* Lines 121-184, and 202-260: for patched_file in patch.  st holds
\* updated_files, and for the record the tier of each file in turn and the
\* chunks that were skipped.
RECURSIVE PatchLoop(_, _, _)
Patched(file_map, st, patch, one) ==
    PatchLoop(file_map,
        [st EXCEPT !.updated_files = Put(@, one.path, one.content),
                   !.tiers = Append(@, [path |-> one.path, tier |-> one.tier])],
        Tail(patch))

PatchLoop(file_map, st, patch) ==
    IF patch = <<>> THEN st
    ELSE Patched(file_map, st, patch, PatchOne(file_map, Head(patch)))

\* re.split(r'(?=^--- a/)', text, flags=re.MULTILINE): the text cut before
\* each line that starts with '--- a/'; m is where the next such line starts.
RECURSIVE SplitFrom(_, _, _)
SplitAt(s, start, m) ==
    IF m = 0 THEN <<SubSeq(s, start, Len(s))>>
    ELSE <<SubSeq(s, start, m - 1)>> \o SplitFrom(s, m + 1, m)

SplitFrom(s, p, start) ==
    SplitAt(s, start,
        MinOr({q \in p..Len(s) : AtLineStart(s, q) /\ StartsWithAt(s, q, SourceA)}, 0))

file_diffs(text) == SplitFrom(text, 1, 1)

\* Lines 192-260: for file_diff in file_diffs.
RECURSIVE ChunkLoop(_, _, _)
\* Lines 197-201: the stripped chunk file_diff has been parsed.
ChunkParsed(file_map, st, chunks, file_diff, parsed) ==
    IF parsed.error # ""
    THEN ChunkLoop(file_map, [st EXCEPT !.skipped = Append(@, file_diff)],
                   Tail(chunks))
    ELSE ChunkLoop(file_map, PatchLoop(file_map, st, parsed.patch), Tail(chunks))

Chunk(file_map, st, chunks, file_diff) ==
    IF file_diff = <<>> THEN ChunkLoop(file_map, st, Tail(chunks))
    ELSE ChunkParsed(file_map, st, chunks, file_diff, PatchSet(file_diff))

ChunkLoop(file_map, st, chunks) ==
    IF chunks = <<>> THEN st
    ELSE Chunk(file_map, st, chunks, strip(Head(chunks)))

\* Lines 110-115: the locals of apply_diff_to_files when it enters the try of
\* line 118.  patch, tiers, skipped, resegmented and error record what it
\* goes on to do.
Entered(files, diff_text) ==
    [pc |-> "try", diff_text |-> CleanDiffText(diff_text),
     updated_files |-> InitialUpdated(files),
     patch |-> <<>>, tiers |-> <<>>, skipped |-> <<>>,
     resegmented |-> FALSE, error |-> ""]

\* Line 119: PatchSet has read the whole text or has raised.
Parsed(st, parsed) ==
    IF parsed.error = "" THEN [st EXCEPT !.pc = "parsed", !.patch = parsed.patch]
    ELSE [st EXCEPT !.pc = "except", !.error = parsed.error]

TryParse(st) == Parsed(st, PatchSet(st.diff_text))

\* Lines 121-186: every patched file is applied, and the function returns.
StrictPass(files, st) ==
    [PatchLoop(FileMap(files), st, st.patch) EXCEPT !.pc = "returned"]

\* Lines 190-262: the text is cut into chunks, each is parsed and applied or
\* skipped, and the function returns.
ResegmentPass(files, st) ==
    [ChunkLoop(FileMap(files), [st EXCEPT !.resegmented = TRUE],
               file_diffs(st.diff_text)) EXCEPT !.pc = "returned"]

Finish(files, st) ==
    IF st.pc = "parsed" THEN StrictPass(files, st) ELSE ResegmentPass(files, st)

\* The function from its arguments to its locals when it returns:
\* updated_files is what it returns.
apply_diff_to_files(files, diff_text) ==
    Finish(files, TryParse(Entered(files, diff_text)))

(***************************************************************************)
(* The orchestrator: /chat, /approve and /webhook/jira over the two        *)
(* process-wide tables.  FastAPI runs the synchronous handlers on a thread *)
(* pool and the webhook on the event loop, so handlers interleave between  *)
(* their accesses to the tables; nothing in the source takes a lock.  A    *)
(* handler is cut into steps only where it reads or writes a table.        *)
(***************************************************************************)
VARIABLES
    user_terraform_change,   \* session key -> stored model response
    user_terraform_context,  \* session key -> stored snapshot
    reqs,                    \* worker -> the locals and position of its handler
    done,                    \* the handler that returned last, with its locals
    arrived,                 \* number of requests that have arrived
    sink                     \* what the version-control host was asked to commit,
                             \* one entry per handler that asked, in order

ovars == <<user_terraform_change, user_terraform_context, reqs, done,
           arrived, sink>>

VARIABLES
    call,   \* the arguments: the snapshot and the text, with what the text was
            \* written to do
    ret     \* the locals of the call and, once pc is "returned", its result

evars == <<call, ret>>

Keys == {"u1", "u2"}
Workers == 1..MaxInFlight

PathM == <<"m">>

BlockText(filename, block_id, body) ==
    FileTag \o filename \o NL \o BlockTag \o block_id \o NL \o HclOpen \o body \o Fence

\* What fetch_terraform_files returns at two different times.
SnapshotA == << [path |-> PathM, content |-> <<"v", "=", "{", "}", "\n">>] >>
SnapshotB == << [path |-> PathM, content |-> <<"x", "\n", "\n", "\n">>] >>

\* What one proposal computes: the snapshot it fetched and the response of
\* initial_summary_and_diff to it.  The first replaces the assignment v; the
\* second gives an empty block for a header its file lacks, which leaves the
\* file as it is.
Proposals ==
    { [files |-> SnapshotA,
       response |-> BlockText(PathM, <<"v">>, <<"v", "=", "{", "x", "}", "\n">>)],
      [files |-> SnapshotB,
       response |-> BlockText(PathM, <<"q">>, <<"\n">>)] }

IdleReq ==
    [kind |-> "none", key |-> "", pc |-> "idle",
     response |-> Absent, files |-> Absent,
     updated_files |-> <<>>, result |-> "", pushed |-> FALSE]

OInit ==
    /\ user_terraform_change = [k \in Keys |-> Absent]
    /\ user_terraform_context = [k \in Keys |-> Absent]
    /\ reqs = [w \in Workers |-> IdleReq]
    /\ done = IdleReq
    /\ arrived = 0
    /\ sink = <<>>

\* A request arrives and worker w, the first free one, takes it.
Arrive(w) ==
    /\ arrived < MaxRequests
    /\ reqs[w].pc = "idle"
    /\ \A v \in Workers : reqs[v].pc = "idle" => w <= v
    /\ arrived' = arrived + 1

\* The comparison written the wrong way round.
ChangedInverted(files, updated_files) ==
    \E n \in DOMAIN files :
        files[n].content =
            (IF files[n].path \in DOMAIN updated_files
             THEN updated_files[files[n].path] ELSE files[n].content)

\* The comparison loop of approve and jira_webhook: some snapshot file whose
\* updated content differs from the original.
Changed(files, updated_files) ==
    \E n \in DOMAIN files :
        files[n].content #
            (IF files[n].path \in DOMAIN updated_files
             THEN updated_files[files[n].path] ELSE files[n].content)

\* Lines 484-521 of approve, 597-660 of jira_webhook: compare, and push when
\* a file differs.
Compared(files, updated_files) ==
    IF ~Changed(files, updated_files)
    THEN [result |-> "no_files_changed", updated_files |-> updated_files,
          push |-> FALSE]
    ELSE [result |-> "pr_created", updated_files |-> updated_files,
          push |-> TRUE]

\* Lines 477-480 of approve, 593-596 of jira_webhook.
Applied(files, block_changes) ==
    IF block_changes = <<>>
    THEN [result |-> "no_block_changes", updated_files |-> <<>>, push |-> FALSE]
    ELSE Compared(files, apply_block_changes(files, block_changes))

\* parse, apply, compare, push: lines 476-521 of approve and 592-660 of
\* jira_webhook, on the handler's own response and files.
Outcome(response, files) == Applied(files, parse_block_changes(response))

\* The responses and the snapshots the handlers can hold, and the outcome of
\* each response on each snapshot.
Responses == {p.response : p \in Proposals}
Snapshots == {p.files : p \in Proposals}
Outcomes ==
    [response \in Responses |->
        [files \in Snapshots |-> Outcome(response, files)]]

\* The handler of worker w returns: its locals are kept in 'done' and the
\* worker is free again.
Return(w, r) ==
    /\ done' = r
    /\ reqs' = [reqs EXCEPT ![w] = IdleReq]

\* /chat, line 450-455: the snapshot is fetched, the model answers, and the
\* response is stored.
ChatStoreChange(w, k, files, response) ==
    /\ Arrive(w)
    /\ reqs' = [reqs EXCEPT ![w] =
            [IdleReq EXCEPT !.kind = "chat", !.key = k, !.pc = "stored_change",
                            !.response = Entry(response),
                            !.files = Entry(files)]]
    /\ user_terraform_change' =
            [user_terraform_change EXCEPT ![k] = Entry(response)]
    /\ UNCHANGED <<user_terraform_context, done, sink>>
    /\ UNCHANGED evars

\* /chat, line 456-457.
ChatStoreContext(w) ==
    /\ reqs[w].kind = "chat" /\ reqs[w].pc = "stored_change"
    /\ user_terraform_context' =
            [user_terraform_context EXCEPT ![reqs[w].key] = reqs[w].files]
    /\ Return(w, [reqs[w] EXCEPT !.pc = "done", !.result = "response"])
    /\ UNCHANGED <<user_terraform_change, sink, arrived>>
    /\ UNCHANGED evars

\* /chat, line 458-460: the fetch or the model call raised, before user_id
\* is used.
ChatError(w) ==
    /\ Arrive(w)
    /\ done' = [IdleReq EXCEPT !.kind = "chat", !.pc = "done", !.result = "error"]
    /\ UNCHANGED <<user_terraform_change, user_terraform_context, reqs, sink>>
    /\ UNCHANGED evars

\* /approve with action "approve", line 469.
ApproveReadChange(w, k) ==
    /\ Arrive(w)
    /\ reqs' = [reqs EXCEPT ![w] =
            [IdleReq EXCEPT !.kind = "approve", !.key = k, !.pc = "read_change",
                            !.response = user_terraform_change[k]]]
    /\ UNCHANGED <<user_terraform_change, user_terraform_context, done, sink>>
    /\ UNCHANGED evars

\* The handler of worker w, whose request is now r, ends with outcome o: the
\* host is asked when a file differs, and the push may raise (failed is what
\* the handler then answers) after the host has been asked.
Resolve(w, r, o, failed) ==
    \E result \in (IF o.push THEN {"pr_created", failed} ELSE {o.result}) :
       /\ Return(w, [r EXCEPT !.updated_files = o.updated_files,
                              !.result = result,
                              !.pushed = o.push])
       /\ sink' = IF o.push
                  THEN Append(sink, [key |-> r.key, files |-> o.updated_files])
                  ELSE sink

\* An approval without the check of line 471: a missing change is taken for
\* a response that names no block.
ApproveWithUnchecked(w, r, response, files) ==
    IF ~Truthy(response) \/ ~Truthy(files)
    THEN Resolve(w, r, Applied(<<>>, <<>>), "error_pr")
    ELSE Resolve(w, r, Outcomes[response.val][files.val], "error_pr")

\* Lines 471-521 of approve, with the two values it has read.
ApproveWith(w, r, response, files) ==
    IF ~Truthy(response) \/ ~Truthy(files)
    THEN /\ Return(w, [r EXCEPT !.result = "no_change_found"])
         /\ sink' = sink
    ELSE Resolve(w, r, Outcomes[response.val][files.val], "error_pr")

\* /approve with action "approve", line 470 to the return.
ApproveFinish(w) ==
    /\ reqs[w].kind = "approve" /\ reqs[w].pc = "read_change"
    /\ ApproveWith(w, [reqs[w] EXCEPT !.pc = "done",
                                      !.files = user_terraform_context[reqs[w].key]],
                   reqs[w].response, user_terraform_context[reqs[w].key])
    /\ UNCHANGED <<user_terraform_change, user_terraform_context, arrived>>
    /\ UNCHANGED evars

\* /approve with any other action, line 523.
RejectPopChange(w, k) ==
    /\ Arrive(w)
    /\ reqs' = [reqs EXCEPT ![w] =
            [IdleReq EXCEPT !.kind = "reject", !.key = k, !.pc = "popped_change",
                            !.response = user_terraform_change[k]]]
    /\ user_terraform_change' = [user_terraform_change EXCEPT ![k] = Absent]
    /\ UNCHANGED <<user_terraform_context, done, sink>>
    /\ UNCHANGED evars

\* /approve with any other action, line 524-526.
RejectPopContext(w) ==
    /\ reqs[w].kind = "reject" /\ reqs[w].pc = "popped_change"
    /\ user_terraform_context' =
            [user_terraform_context EXCEPT ![reqs[w].key] = Absent]
    /\ Return(w, [reqs[w] EXCEPT !.pc = "done", !.result = "rejected",
                                 !.files = user_terraform_context[reqs[w].key]])
    /\ UNCHANGED <<user_terraform_change, sink, arrived>>
    /\ UNCHANGED evars

\* /webhook/jira, line 553-574: not an issue_created event, or not 'To Do':
\* the handler returns without touching a table.
JiraIgnored(w) ==
    /\ Arrive(w)
    /\ done' = [IdleReq EXCEPT !.kind = "jira", !.pc = "done", !.result = "ignored"]
    /\ UNCHANGED <<user_terraform_change, user_terraform_context, reqs, sink>>
    /\ UNCHANGED evars

\* /webhook/jira, line 576-588.
JiraStoreChange(w, k, files, response) ==
    /\ Arrive(w)
    /\ reqs' = [reqs EXCEPT ![w] =
            [IdleReq EXCEPT !.kind = "jira", !.key = k, !.pc = "stored_change",
                            !.response = Entry(response),
                            !.files = Entry(files)]]
    /\ user_terraform_change' =
            [user_terraform_change EXCEPT ![k] = Entry(response)]
    /\ UNCHANGED <<user_terraform_context, done, sink>>
    /\ UNCHANGED evars

\* /webhook/jira, line 589 to the return: the webhook applies its own response
\* to its own files.  A push that raises is caught at line 661.
JiraFinish(w) ==
    /\ reqs[w].kind = "jira" /\ reqs[w].pc = "stored_change"
    /\ user_terraform_context' =
            [user_terraform_context EXCEPT ![reqs[w].key] = reqs[w].files]
    /\ Resolve(w, [reqs[w] EXCEPT !.pc = "done"],
               Outcomes[reqs[w].response.val][reqs[w].files.val], "error")
    /\ UNCHANGED <<user_terraform_change, arrived>>
    /\ UNCHANGED evars

Next ==
    \/ \E w \in Workers, k \in Keys, p \in Proposals :
          ChatStoreChange(w, k, p.files, p.response)
    \/ \E w \in Workers : ChatStoreContext(w)
    \/ \E w \in Workers : ChatError(w)
    \/ \E w \in Workers, k \in Keys : ApproveReadChange(w, k)
    \/ \E w \in Workers : ApproveFinish(w)
    \/ \E w \in Workers, k \in Keys : RejectPopChange(w, k)
    \/ \E w \in Workers : RejectPopContext(w)
    \/ \E w \in Workers : JiraIgnored(w)
    \/ \E w \in Workers, k \in Keys, p \in Proposals :
          JiraStoreChange(w, k, p.files, p.response)
    \/ \E w \in Workers : JiraFinish(w)

(***************************************************************************)
(* The two engines called on their own: one call of apply_diff_to_files,   *)
(* or of apply_block_changes on a parsed response, from its arguments to   *)
(* what it returns.                                                        *)
(***************************************************************************)
PathN == <<"n">>

Line(c) == <<c, "\n">>

\* The line sequences of exactly k lines, and of at most MaxLines lines.
RECURSIVE LinesOfLen(_)
LinesOfLen(k) ==
    IF k = 0 THEN {<<>>}
    ELSE {Append(t, Line(c)) : t \in LinesOfLen(k - 1), c \in {"x", "y"}}

FileLines == UNION {LinesOfLen(k) : k \in 0..MaxLines}

\* The number of lines two line sequences share at their start, at their end.
CommonPrefix(a, b) ==
    Max({k \in 0..Min({Len(a), Len(b)}) : SubSeq(a, 1, k) = SubSeq(b, 1, k)})
CommonSuffix(a, b) ==
    Max({k \in 0..Min({Len(a), Len(b)}) :
            SubSeq(a, Len(a) - k + 1, Len(a)) = SubSeq(b, Len(b) - k + 1, Len(b))})

RECURSIVE NumText(_)
NumText(n) ==
    IF n < Len(Digits) THEN <<Digits[n + 1]>>
    ELSE NumText(n \div Len(Digits)) \o <<Digits[(n % Len(Digits)) + 1]>>

HunkHeaderText(source_start, source_length, target_start, target_length) ==
    HunkPrefix \o NumText(source_start) \o <<",">> \o NumText(source_length)
        \o <<" ", "+">> \o NumText(target_start) \o <<",">> \o NumText(target_length)
        \o HunkSuffix \o NL

\* Each line of ls behind the marker t.
Marked(t, ls) == Concat([n \in DOMAIN ls |-> <<t>> \o ls[n]])

FileHeaderText(path) == SourceA \o path \o NL \o TargetB \o path \o NL

\* A diff producer: the unified diff from original to modified for the file
\* at path, in one hunk that starts at the first line, keeps the lines the
\* two share at the start as context, and leaves out the lines they share at
\* the end.  shift is added to the start line of the hunk header: a producer
\* that is right has shift 0.
FileDiffText(path, original, modified, shift) ==
    LET pre == CommonPrefix(original, modified)
        suf == CommonSuffix(SubSeq(original, pre + 1, Len(original)),
                            SubSeq(modified, pre + 1, Len(modified)))
        removed == SubSeq(original, pre + 1, Len(original) - suf)
        added   == SubSeq(modified, pre + 1, Len(modified) - suf)
    IN  FileHeaderText(path)
            \o HunkHeaderText((IF pre + Len(removed) = 0 THEN 0 ELSE 1) + shift,
                              pre + Len(removed),
                              (IF pre + Len(added) = 0 THEN 0 ELSE 1) + shift,
                              pre + Len(added))
            \o Marked(" ", SubSeq(original, 1, pre))
            \o Marked("-", removed)
            \o Marked("+", added)

Shifts == {0, 1, 2}

NoWant == [p \in {} |-> <<>>]

\* The diff for file n that the two-file diffs carry after the diff for m.
OtherDiffText == FileDiffText(PathN, <<Line("x")>>, <<Line("y")>>, 0)

\* A snapshot of m and n with a diff from original to modified for m, its
\* hunk header off by shift, alone or followed by a correct diff for n, bare
\* or inside a markdown fence, as the model service often returns it.
ProducerCalls ==
    {[engine |-> "diff", kind |-> "producer",
      files |-> << [path |-> PathM, content |-> Concat(om[1])],
                   [path |-> PathN, content |-> Line("x")] >>,
      text |-> (IF fenced THEN FenceDiff \o NL ELSE <<>>)
                   \o FileDiffText(PathM, om[1], om[2], shift)
                   \o (IF multi THEN NL \o OtherDiffText ELSE <<>>)
                   \o (IF fenced THEN Fence ELSE <<>>),
      names |-> IF multi THEN {PathM, PathN} ELSE {PathM},
      original |-> om[1], modified |-> om[2],
      shift |-> shift, multi |-> multi, want |-> NoWant] :
        om \in {t \in FileLines \X FileLines : t[1] # t[2]},
        shift \in Shifts, multi \in BOOLEAN, fenced \in BOOLEAN}

OtherCall(engine, kind, files, text, names, want) ==
    [engine |-> engine, kind |-> kind, files |-> files, text |-> text,
     names |-> names, original |-> <<>>, modified |-> <<>>,
     shift |-> 0, multi |-> FALSE, want |-> want]

\* A diff that creates file n in a snapshot that holds only m.
CreateCalls ==
    {OtherCall("diff", "create",
               << [path |-> PathM, content |-> Line("x")] >>,
               FileDiffText(PathN, <<>>, modified, 0), {PathN},
               [p \in {PathN} |-> Concat(modified)]) :
        modified \in FileLines \ {<<>>}}

\* A snapshot that holds m and a/m (a file m in a directory named a), with a
\* diff for a/m.
NestedCalls ==
    {OtherCall("diff", "nested",
               << [path |-> PathM, content |-> Line("x")],
                  [path |-> PrefixA \o PathM, content |-> Line("y")] >>,
               FileDiffText(PrefixA \o PathM, <<Line("y")>>, <<Line("x")>>, 0),
               {PrefixA \o PathM}, NoWant)}

\* Texts that are no diff, or a damaged one, against a snapshot of m and n:
\* no text, a line of prose, a hunk without file names, a hunk cut short, a
\* second target name, a good diff for n before the hunk cut short, a stray
\* hunk header before a good diff for n, and a stray hunk header before a
\* diff for m whose hunk starts past the end of m.
MalformedCalls ==
    LET Truncated == FileHeaderText(PathM) \o HunkHeaderText(1, 2, 1, 2)
                        \o Marked(" ", <<Line("x")>>)
    IN  {OtherCall("diff", "malformed",
                   << [path |-> PathM, content |-> Line("x") \o Line("y")],
                      [path |-> PathN, content |-> Line("x")] >>,
                   t.text, t.names, NoWant) :
            t \in { [text |-> <<>>, names |-> {}],
                    [text |-> <<"n", "o", "\n">>, names |-> {}],
                    [text |-> HunkHeaderText(1, 1, 1, 1)
                                  \o Marked("-", <<Line("x")>>)
                                  \o Marked("+", <<Line("y")>>),
                     names |-> {}],
                    [text |-> Truncated, names |-> {PathM}],
                    [text |-> FileHeaderText(PathM) \o TargetB \o PathM \o NL,
                     names |-> {PathM}],
                    [text |-> OtherDiffText \o NL \o Truncated,
                     names |-> {PathM, PathN}],
                    [text |-> HunkHeaderText(1, 1, 1, 1) \o OtherDiffText,
                     names |-> {PathN}],
                    [text |-> HunkHeaderText(1, 1, 1, 1) \o FileHeaderText(PathM)
                                  \o HunkHeaderText(5, 1, 5, 1)
                                  \o Marked(" ", <<Line("x")>>),
                     names |-> {PathM}] }}

\* Responses in the block format against a snapshot of m and n: a block of m
\* replaced, a block appended to n, a block for a file q the snapshot does not
\* hold, and the first with the last.
BlockCalls ==
    LET NewBlock == <<"r", " ", "{", "}", "\n">>
        Replace  == BlockText(PathM, <<"v">>, <<"v", "=", "{", "x", "}", "\n">>)
        NewFile  == BlockText(<<"q">>, <<"r">>, NewBlock)
        Wanted   == [p \in {<<"q">>} |-> NewBlock]
    IN  {OtherCall("block", "block",
                   << [path |-> PathM, content |-> <<"v", "=", "{", "}", "\n">>],
                      [path |-> PathN, content |-> Line("x")] >>,
                   t.text, t.names, t.want) :
            t \in { [text |-> Replace, names |-> {PathM}, want |-> NoWant],
                    [text |-> BlockText(PathN, <<"r">>, NewBlock),
                     names |-> {PathN}, want |-> NoWant],
                    [text |-> NewFile, names |-> {<<"q">>}, want |-> Wanted],
                    [text |-> Replace \o NL \o NewFile,
                     names |-> {PathM, <<"q">>}, want |-> Wanted] }}

Calls == ProducerCalls \cup CreateCalls \cup NestedCalls \cup MalformedCalls
            \cup BlockCalls

\* No engine is called.
NoCall == OtherCall("none", "none", <<>>, <<>>, {}, NoWant)

NotCalled ==
    [pc |-> "called", diff_text |-> <<>>, updated_files |-> <<>>,
     patch |-> <<>>, tiers |-> <<>>, skipped |-> <<>>,
     resegmented |-> FALSE, error |-> ""]

\* apply_diff_to_files is sequential code and a function of its arguments:
\* for each call, its locals at the try of line 118, after line 119, and at
\* its return.
DiffRuns ==
    [c \in {d \in Calls : d.engine = "diff"} |->
        [entered  |-> Entered(c.files, c.text),
         parsed   |-> TryParse(Entered(c.files, c.text)),
         returned |-> apply_diff_to_files(c.files, c.text)]]

\* What apply_block_changes returns for each response in the block format.
BlockRuns ==
    [c \in {d \in Calls : d.engine = "block"} |->
        apply_block_changes(c.files, parse_block_changes(c.text))]

\* Lines 110-115: the text is cleaned, file_map and updated_files are built.
DiffEnter ==
    /\ call.engine = "diff" /\ ret.pc = "called"
    /\ ret' = DiffRuns[call].entered
    /\ UNCHANGED <<call, ovars>>

\* Line 119: PatchSet reads the whole text, or raises and the handler of line
\* 187 is entered.
DiffParse ==
    /\ ret.pc = "try"
    /\ ret' = DiffRuns[call].parsed
    /\ UNCHANGED <<call, ovars>>

\* Lines 121-186: every patched file is applied, and the function returns.
DiffApply ==
    /\ ret.pc = "parsed"
    /\ ret' = DiffRuns[call].returned
    /\ UNCHANGED <<call, ovars>>

\* Lines 190-262: the text is cut into chunks, each is parsed and applied or
\* skipped, and the function returns.
DiffResegment ==
    /\ ret.pc = "except"
    /\ ret' = DiffRuns[call].returned
    /\ UNCHANGED <<call, ovars>>

\* parse_block_changes and apply_block_changes, lines 476-480.
BlockApply ==
    /\ call.engine = "block" /\ ret.pc = "called"
    /\ ret' = [NotCalled EXCEPT !.pc = "returned",
                                !.updated_files = BlockRuns[call]]
    /\ UNCHANGED <<call, ovars>>

ApplyInit ==
    /\ OInit
    /\ call \in Calls
    /\ ret = NotCalled

ApplyNext ==
    \/ DiffEnter
    \/ DiffParse
    \/ DiffApply
    \/ DiffResegment
    \/ BlockApply


(***************************************************************************)
(* Calls of the block locator: replace_or_insert_block and find_block_span *)
(* on small texts.                                                         *)
(***************************************************************************)
MaxTail == 4

BlockId == <<"v">>
NewText == <<"n", "{", "}">>

Delims == {"{", "}", "[", "]"}
Tails  == UNION {[1..n -> Delims] : n \in 0..MaxTail}

\* A header of each shape, up to and including its opening delimiter.
Headers ==
    { <<"v", "=", "{">>, <<"v", " ", "=", "\n", "[">>, <<"v", " ", "{">> }

\* One header followed by every run of delimiters: nested, closed by the
\* other kind, or never closed.
DepthTexts == {h \o t : h \in Headers, t \in Tails}

\* Up to two blocks on lines of their own, after a line that does or does
\* not end, before trailing whitespace.
LayoutTexts ==
    {pre \o first \o second \o post :
        pre    \in { <<>>, <<"x", "\n">>, <<"x">> },
        first  \in { <<>>, <<"v", "=", "{", "}">>, <<"v", "=", "{">>,
                     <<"v", "=", "[", "x", "]">>, <<"v", "{", "}">>,
                     <<"v", "{">>, <<"v", "{", "x", "{", "}", "}">> },
        second \in { <<>>, <<"\n", "v", "=", "{", "}">>,
                     <<"\n", "v", "{", "}">> },
        post   \in { <<>>, <<"\n">>, <<" ", "\n", "\n">> }}

PatchCalls ==
    {[engine |-> e, file_content |-> t, block_id |-> BlockId,
      new_block |-> NewText] :
        e \in {"patch", "span"}, t \in DepthTexts \cup LayoutTexts}

\* Lines 325-331 and 347-351: the header found, a and h being the results of
\* the two searches; start and open are 0 when neither shape matches.
LocatedBy(file_content, block_id, a, h) ==
    IF a # 0
    THEN [form |-> "assign", start |-> a,
          open |-> AssignMatchAt(file_content, a, block_id)]
    ELSE IF h # 0
    THEN [form |-> "block", start |-> h,
          open |-> HeaderMatchAt(file_content, h, block_id)]
    ELSE [form |-> "none", start |-> 0, open |-> 0]

Located(file_content, block_id) ==
    LocatedBy(file_content, block_id, AssignSearch(file_content, block_id),
              HeaderSearch(file_content, block_id))

\* Lines 333-343 and 353-363: the depth count from the character after the
\* opening delimiter.
CloseOf(file_content, open) ==
    IF open = 0 THEN 0
    ELSE ScanClose(file_content, open + 1, file_content[open],
                   Closer(file_content[open]), 1)

\* header_pattern of find_block_span tried at position p: the header, then
\* \s*\{, anywhere in the text.
SpanMatchAt(s, p, block_header) ==
    IF StartsWithAt(s, p, block_header)
    THEN OpenAt(s, SkipWhitespace(s, p + Len(block_header)), {"{"}) ELSE 0

SpanSearch(s, block_header) ==
    MinOr({p \in DOMAIN s : SpanMatchAt(s, p, block_header) # 0}, 0)

\* Lines 306-317, start being where the match starts (0 for no match): the
\* match, its opening delimiter and the closing delimiter counted to.
SpanFrom(file_content, block_header, start) ==
    IF start = 0 THEN [form |-> "none", start |-> 0, open |-> 0, close |-> 0]
    ELSE [form |-> "span", start |-> start,
          open |-> SpanMatchAt(file_content, start, block_header),
          close |-> ScanClose(file_content,
                     SpanMatchAt(file_content, start, block_header) + 1,
                     "{", "}", 1)]

\* None (the empty tuple here), or (start, end) counted from 0 with end one
\* past the closing brace.
SpanResult(span) ==
    IF span.close = 0 THEN <<>> ELSE <<span.start - 1, span.close>>

find_block_span(file_content, block_header) ==
    SpanResult(SpanFrom(file_content, block_header,
                        SpanSearch(file_content, block_header)))

\* Both functions are sequential code and functions of their arguments: for
\* each call, the locals after the searches, after the depth count, and the
\* value returned.
PatchRuns ==
    [c \in PatchCalls |->
        IF c.engine = "patch"
        THEN [located |-> Located(c.file_content, c.block_id),
              close   |-> CloseOf(c.file_content,
                             Located(c.file_content, c.block_id).open),
              result  |-> replace_or_insert_block(c.file_content, c.block_id,
                                                  c.new_block)]
        ELSE [located |-> [form  |-> "span",
                           start |-> SpanSearch(c.file_content, c.block_id),
                           open  |-> SpanFrom(c.file_content, c.block_id,
                                        SpanSearch(c.file_content,
                                                   c.block_id)).open],
              close   |-> SpanFrom(c.file_content, c.block_id,
                             SpanSearch(c.file_content, c.block_id)).close,
              result  |-> find_block_span(c.file_content, c.block_id)]]

PatchCalled ==
    [pc |-> "called", form |-> "none", start |-> 0, open |-> 0, close |-> 0,
     result |-> <<>>]

\* Lines 325-326 and 347-348: the two searches.
PatchLocate ==
    /\ call.engine = "patch" /\ ret.pc = "called"
    /\ ret' = [ret EXCEPT !.pc = "located",
                          !.form = PatchRuns[call].located.form,
                          !.start = PatchRuns[call].located.start,
                          !.open = PatchRuns[call].located.open]
    /\ UNCHANGED <<call, ovars>>

\* Lines 333-343 and 353-363: the while loop, left at the closing delimiter
\* or at the end of the text.
PatchScan ==
    /\ call.engine = "patch" /\ ret.pc = "located" /\ ret.form # "none"
    /\ ret' = [ret EXCEPT !.pc = "scanned", !.close = PatchRuns[call].close]
    /\ UNCHANGED <<call, ovars>>

\* Lines 339-342 and 359-362: the span is replaced.
PatchReplace ==
    /\ call.engine = "patch" /\ ret.pc = "scanned" /\ ret.close # 0
    /\ ret' = [ret EXCEPT !.pc = "returned",
                          !.result = PatchRuns[call].result]
    /\ UNCHANGED <<call, ovars>>

\* Lines 344-345, 364-365 and 366-368: the block is appended.
PatchAppend ==
    /\ call.engine = "patch"
    /\ \/ ret.pc = "scanned" /\ ret.close = 0
       \/ ret.pc = "located" /\ ret.form = "none"
    /\ ret' = [ret EXCEPT !.pc = "returned",
                          !.result = PatchRuns[call].result]
    /\ UNCHANGED <<call, ovars>>

\* find_block_span, lines 297-317.
FindSpan ==
    /\ call.engine = "span" /\ ret.pc = "called"
    /\ ret' = [pc |-> "returned", form |-> PatchRuns[call].located.form,
               start |-> PatchRuns[call].located.start,
               open |-> PatchRuns[call].located.open,
               close |-> PatchRuns[call].close,
               result |-> PatchRuns[call].result]
    /\ UNCHANGED <<call, ovars>>

PatchInit ==
    /\ OInit
    /\ call \in PatchCalls
    /\ ret = PatchCalled

PatchNext ==
    \/ PatchLocate
    \/ PatchScan
    \/ PatchReplace
    \/ PatchAppend
    \/ FindSpan


vars == <<user_terraform_change, user_terraform_context, reqs, done,
          arrived, sink, call, ret>>

\* The server: requests arrive and their handlers interleave.
Init == OInit /\ call = NoCall /\ ret = NotCalled
Spec == Init /\ [][Next]_vars

\* One engine call, for every call of Calls.
SpecApply == ApplyInit /\ [][ApplyNext]_vars

\* The same, with the call running on: the function is plain sequential code
\* that waits for nothing, so a step it can take is taken.
SpecApplyFair == SpecApply /\ WF_vars(ApplyNext)

\* One call of the block locator, for every call of PatchCalls; it is plain
\* sequential code too.
SpecPatch == PatchInit /\ [][PatchNext]_vars
SpecPatchFair == SpecPatch /\ WF_vars(PatchNext)


(***************************************************************************)
(* Claims about the orchestrator.                                          *)
(***************************************************************************)
\* The response and the snapshot were stored by one proposal.
SameProposal(response, files) ==
    \E p \in Proposals : p.response = response /\ p.files = files

\* C1: an approval that finds a stored change and a stored snapshot has read
\* the change of one proposal together with the snapshot that same proposal
\* stored, under every interleaving of proposals and approvals.
C1_ApprovalReadsOneProposal ==
    (done.kind = "approve" /\ done.response.set /\ done.files.set)
        => SameProposal(done.response.val, done.files.val)

\* Worker w returns from /approve in this step, the key was in state Proposed
\* (the approval found a change and a snapshot; a rejection found a change),
\* and no other handler is running.
ResolvesAlone(w) ==
    /\ reqs[w].kind \in {"approve", "reject"}
    /\ reqs'[w].pc = "idle"
    /\ Truthy(reqs[w].response)
    /\ done'.result # "no_change_found"
    /\ \A v \in Workers \ {w} : reqs[v].pc = "idle"

\* C2: when an /approve request (approve or reject) for a key in state
\* Proposed returns, neither a pending change nor a snapshot remains stored
\* for the key.
C2_ClearedOnResolution ==
    [][\A w \in Workers :
          ResolvesAlone(w) =>
              /\ ~user_terraform_change'[reqs[w].key].set
              /\ ~user_terraform_context'[reqs[w].key].set]_vars

\* Worker w returns in this step from a handler that held a response and a
\* snapshot and got as far as applying the one to the other.
ReturnsApplied(w) ==
    /\ reqs[w].kind \in {"approve", "jira"}
    /\ reqs'[w].pc = "idle"
    /\ Truthy(done'.response) /\ Truthy(done'.files)

\* The engine's result for what a returned handler d held.
AppliedResults ==
    [response \in Responses |->
        [files \in Snapshots |->
            apply_block_changes(files, parse_block_changes(response))]]
AppliedResult(d) == AppliedResults[d.response.val][d.files.val]

Identical(files, updated_files) ==
    \A n \in DOMAIN files : updated_files[files[n].path] = files[n].content

NoOpResults == {"no_block_changes", "no_files_changed"}

\* C3: a handler whose applied change leaves every snapshot file identical
\* reports a no-op and asks nothing of the commit sink; the commit sink is
\* asked for something only by a handler that holds a snapshot file whose
\* updated content differs, and then for exactly the updated contents.
C3_NoOpDetection ==
    [][/\ \A w \in Workers :
             ReturnsApplied(w) =>
                 IF Identical(done'.files.val, AppliedResult(done'))
                 THEN done'.result \in NoOpResults /\ sink' = sink
                 ELSE sink' = Append(sink, [key |-> done'.key,
                                            files |-> AppliedResult(done')])
       /\ sink' # sink =>
             \E w \in Workers :
                 ReturnsApplied(w) /\ ~Identical(done'.files.val, AppliedResult(done'))
      ]_vars

C3_Witness ==
    /\ done.kind = "approve"
    /\ Truthy(done.response) /\ Truthy(done.files)
    /\ parse_block_changes(done.response.val) # <<>>
    /\ Identical(done.files.val, AppliedResult(done))
    /\ done.result = "no_files_changed"

(***************************************************************************)
(* Claims about the two engines.                                           *)
(***************************************************************************)
Returned(engine) == call.engine = engine /\ ret.pc = "returned"

\* C4 (fallback totality): whatever the text, a call of apply_diff_to_files
\* comes to its return (no exception leaves the function, whichever tiers it
\* goes through), and the mapping it returns holds every path of the
\* snapshot.
C4_FallbackTotality ==
    /\ (call.engine = "diff") ~> (ret.pc = "returned")
    /\ [](Returned("diff") => Paths(call.files) \subseteq DOMAIN ret.updated_files)

\* A call that went through the handler of line 187, skipped one chunk,
\* applied another by the reconstructive fallback, and returned.
C4_Witness ==
    /\ Returned("diff")
    /\ ret.resegmented
    /\ ret.skipped # <<>>
    /\ \E n \in DOMAIN ret.tiers : ret.tiers[n].tier = "reconstructive"

\* C5 (frame): when an engine returns, every snapshot path that the change
\* does not name has the content the snapshot gave it.
C5_UntouchedUnchanged ==
    ret.pc = "returned" =>
        \A p \in Paths(call.files) \ call.names :
            /\ p \in DOMAIN ret.updated_files
            /\ ret.updated_files[p] = ContentOf(call.files, p)

\* C6 (no dropped change): when an engine returns, every path the change
\* names is in the result, and a named path the snapshot does not hold is
\* there with the content the change asks for.
C6_NamedPathsPresent ==
    ret.pc = "returned" =>
        \A p \in call.names :
            /\ p \in DOMAIN ret.updated_files
            /\ p \in DOMAIN call.want => ret.updated_files[p] = call.want[p]

\* What apply_diff_to_files returns for the snapshot when the text asks for
\* nothing.
Untouched(files) == apply_diff_to_files(files, <<>>).updated_files

\* C7 (partial failure surfaced): when apply_diff_to_files has skipped a
\* chunk that no tier could parse, the value it returns differs from the
\* value it returns for the same snapshot when nothing has failed and no file
\* has changed.
C7_FailureDistinguishable ==
    (Returned("diff") /\ ret.skipped # <<>>)
        => ret.updated_files # Untouched(call.files)

\* The tier that produced the content of path.
TierOf(path) ==
    {ret.tiers[n].tier : n \in {k \in DOMAIN ret.tiers : ret.tiers[k].path = path}}

\* The diff for file n applied on its own.
OtherAlone(files) == apply_diff_to_files(files, OtherDiffText).updated_files[PathN]

\* The hunk lines read or remove a line of the source file.
TouchesSource(hls) == \E n \in DOMAIN hls : ~is_added(hls[n])

\* C8 (off-by-N start): in a diff for m and n whose hunk for m reads lines of
\* m but starts off its true line, m gets the reconstructive content (the
\* Added and Context values of its hunks) and n gets what its own strict
\* application gives.
C8_MismatchFallsBack ==
    (Returned("diff") /\ call.kind = "producer" /\ call.multi /\ call.shift # 0
        /\ TouchesSource(AllHunkLines(ret.patch[1].hunks)))
        => /\ TierOf(PathM) = {"reconstructive"}
           /\ ret.updated_files[PathM] =
                  Concat(fallback_lines(AllHunkLines(ret.patch[1].hunks)))
           /\ TierOf(PathN) = {"strict"}
           /\ ret.updated_files[PathN] = OtherAlone(call.files)

\* C9 (round trip): a correct diff from original to modified, applied to a
\* snapshot whose file m holds original, gives modified.
C9_RoundTrip ==
    (Returned("diff") /\ call.kind = "producer" /\ call.shift = 0)
        => ret.updated_files[PathM] = Concat(call.modified)

RemovedCount(hls) == Len(SelectSeq(hls, is_removed))
AddedCount(hls)   == Len(SelectSeq(hls, is_added))

\* C10 (line count): a correct single-hunk diff applied by the strict tier
\* gives a content of as many lines as the original had, minus the Removed
\* lines of the hunk, plus its Added lines.
C10_LineCount ==
    (Returned("diff") /\ call.kind = "producer" /\ call.shift = 0
        /\ TierOf(PathM) = {"strict"})
        => Len(splitlines(ret.updated_files[PathM]))
              = Len(call.original)
                  - RemovedCount(AllHunkLines(ret.patch[1].hunks))
                  + AddedCount(AllHunkLines(ret.patch[1].hunks))


(***************************************************************************)
(* Claims about the block locator.                                         *)
(***************************************************************************)
\* How many more opening delimiters of the kind at open than closing ones of
\* its kind there are from open to c.
Balance(s, open, c) ==
    Cardinality({i \in open..c : s[i] = s[open]})
        - Cardinality({i \in open..c : s[i] = Closer(s[open])})

\* The delimiter that closes the one at open: the first position where the
\* two counts are level, 0 when they never are.
OuterClose(s, open) ==
    MinOr({c \in (open + 1)..Len(s) : Balance(s, open, c) = 0}, 0)

\* C11: the closing position the depth count of replace_or_insert_block and
\* of find_block_span ends at is the delimiter that closes the header's
\* opening delimiter, the one that brings the depth back to 0, never an inner
\* one, and delimiters of the other kind do not change the depth; when no
\* delimiter closes it the count finds none.
C11_OuterClose ==
    (ret.pc \in {"scanned", "returned"} /\ ret.open # 0)
        => ret.close = OuterClose(call.file_content, ret.open)

\* A replaced span that holds a closed inner block of the same kind and a
\* delimiter of the other kind.
C11_Witness ==
    /\ call.engine = "patch" /\ ret.pc = "returned" /\ ret.close # 0
    /\ \E i \in (ret.open + 1)..(ret.close - 1) :
          call.file_content[i] = Closer(call.file_content[ret.open])
    /\ \E j \in (ret.open + 1)..(ret.close - 1) :
          call.file_content[j] \in
              Delims \ {call.file_content[ret.open],
                        Closer(call.file_content[ret.open])}

\* A call of replace_or_insert_block that found a header and its closing
\* delimiter, and has returned.
Replaced ==
    call.engine = "patch" /\ ret.pc = "returned" /\ ret.close # 0

\* How far the text after the replaced span has moved.
Shift == Len(call.new_block) + 1 - (ret.close - ret.start + 1)

\* C12 as stated: when the header matches and its delimiter balances, the
\* result is the original text before the header start, then the new block
\* text, then the original text after the matched closing delimiter, and
\* nothing else is inserted.
C12_SpliceOnly ==
    Replaced
        => ret.result = SubSeq(call.file_content, 1, ret.start - 1)
                \o call.new_block
                \o SubSeq(call.file_content, ret.close + 1,
                          Len(call.file_content))

\* C12 amended: when the header matches and its delimiter balances, the
\* result is the original text before the header start, then the new block
\* text, then one newline, then the original text after the matched closing
\* delimiter: every character outside the span from start to the closing
\* delimiter is kept, in order, and only the new block and that newline are
\* inserted.
C12_SpliceWithNewline ==
    Replaced
        => /\ Len(ret.result) = Len(call.file_content) + Shift
           /\ \A i \in 1..(ret.start - 1) :
                 ret.result[i] = call.file_content[i]
           /\ \A j \in 1..Len(call.new_block) :
                 ret.result[ret.start - 1 + j] = call.new_block[j]
           /\ ret.result[ret.start + Len(call.new_block)] = "\n"
           /\ \A i \in (ret.close + 1)..Len(call.file_content) :
                 ret.result[i + Shift] = call.file_content[i]

\* A replaced span with text before it and text after it.
C12_Witness ==
    Replaced /\ ret.start > 1 /\ ret.close < Len(call.file_content)

\* A call of replace_or_insert_block that found no header, or a header whose
\* delimiter never balances, and has returned.
Appended ==
    call.engine = "patch" /\ ret.pc = "returned" /\ ret.close = 0

\* The last character of s that is not whitespace, 0 when there is none.
LastSolid(s) == Max({0} \cup {i \in DOMAIN s : s[i] \notin Whitespace})

\* C13 as stated: when a header is matched but its delimiter never balances,
\* or no header is found, the result is the complete original text,
\* untouched, followed by the new block appended at end-of-file.
C13_AppendedUntouched ==
    Appended
        => /\ startswith(ret.result, call.file_content)
           /\ strip(SubSeq(ret.result, Len(call.file_content) + 1,
                           Len(ret.result))) = call.new_block

\* The result of an append: the text up to its last character that is not
\* whitespace, an empty line, the new block, a newline.
AppendedStripped ==
    /\ Len(ret.result)
          = LastSolid(call.file_content) + Len(call.new_block) + 3
    /\ \A i \in 1..LastSolid(call.file_content) :
          ret.result[i] = call.file_content[i]
    /\ ret.result[LastSolid(call.file_content) + 1] = "\n"
    /\ ret.result[LastSolid(call.file_content) + 2] = "\n"
    /\ \A j \in 1..Len(call.new_block) :
          ret.result[LastSolid(call.file_content) + 2 + j]
              = call.new_block[j]
    /\ ret.result[Len(ret.result)] = "\n"

\* C13 amended: when a header is matched but its delimiter never balances,
\* or no header is found, the call makes no partial replacement and does not
\* raise: it returns, and the result is the original text with its trailing
\* whitespace removed and otherwise untouched, followed by an empty line,
\* the new block and a newline.
C13_AppendedStripped ==
    /\ (call.engine = "patch") ~> (ret.pc = "returned")
    /\ [](Appended => AppendedStripped)

\* A header whose delimiter never balances, in a text that ends in
\* whitespace.
C13_Witness ==
    /\ Appended /\ ret.form # "none"
    /\ LastSolid(call.file_content) < Len(call.file_content)

\* Where the identifier occurs as a header in s, in each form.
AssignOccurrences(s, block_id) ==
    {p \in DOMAIN s : AssignMatchAt(s, p, block_id) # 0}

HeaderOccurrences(s, block_id) ==
    {p \in DOMAIN s : HeaderMatchAt(s, p, block_id) # 0}

Occurrences(s, block_id) ==
    AssignOccurrences(s, block_id) \cup HeaderOccurrences(s, block_id)

\* The header that occurs at p in the text is in the result the same header,
\* d characters further on.
KeptAt(p, d) ==
    /\ AssignMatchAt(ret.result, p + d, call.block_id)
          = (IF AssignMatchAt(call.file_content, p, call.block_id) = 0
             THEN 0
             ELSE AssignMatchAt(call.file_content, p, call.block_id) + d)
    /\ HeaderMatchAt(ret.result, p + d, call.block_id)
          = (IF HeaderMatchAt(call.file_content, p, call.block_id) = 0
             THEN 0
             ELSE HeaderMatchAt(call.file_content, p, call.block_id) + d)

\* The identifier occurs as a header several times, and the call has
\* replaced a block.
ReplacedOneOfSeveral ==
    Replaced
        /\ Cardinality(Occurrences(call.file_content, call.block_id)) > 1

\* C14 as stated: when the identifier occurs as a header several times, in
\* assignment form, block form, or both, one call replaces exactly the
\* occurrence that comes first in the file and leaves every later occurrence
\* unchanged.
C14_FirstInFile ==
    ReplacedOneOfSeveral
        => /\ ret.start = Min(Occurrences(call.file_content, call.block_id))
           /\ \A p \in Occurrences(call.file_content, call.block_id) :
                 p > ret.close => KeptAt(p, Shift)

\* C14 amended: when the identifier occurs as a header several times, a
\* call that replaces a block replaces exactly the first occurrence in
\* assignment form when the file holds one, and the first occurrence in
\* block form only when it holds none; every occurrence after the replaced
\* span, and every block-form occurrence before it, is left unchanged.
C14_FirstOfForm ==
    ReplacedOneOfSeveral
        => /\ ret.start
                 = (IF AssignOccurrences(call.file_content, call.block_id)
                          # {}
                    THEN Min(AssignOccurrences(call.file_content,
                                               call.block_id))
                    ELSE Min(HeaderOccurrences(call.file_content,
                                               call.block_id)))
           /\ \A p \in Occurrences(call.file_content, call.block_id) :
                 /\ p > ret.close => KeptAt(p, Shift)
                 /\ p < ret.start => KeptAt(p, 0)

\* The first of two occurrences is replaced and the second is left.
C14_Witness ==
    /\ ReplacedOneOfSeveral
    /\ \E p \in Occurrences(call.file_content, call.block_id) :
          p > ret.close

(***************************************************************************)
(* Further claims about the orchestrator and the strict tier.              *)
(***************************************************************************)
\* C15: there is no queue: a new proposal for a key overwrites both the
\* stored change and the stored snapshot, so that once the proposals made
\* have returned, what is stored for the key, which is what a subsequent
\* approval reads and applies, is the change of one proposal, the most
\* recent, together with that proposal's own snapshot.
C15_LatestProposalStored ==
    (\A w \in Workers : reqs[w].pc = "idle")
        => \A k \in Keys :
              (Truthy(user_terraform_change[k])
                  /\ Truthy(user_terraform_context[k]))
                  => SameProposal(user_terraform_change[k].val,
                                  user_terraform_context[k].val)

\* The hunk line takes a position of the original file: a Context line reads
\* it, a Removed line passes it.
Consumes(hl) == is_context(hl) \/ is_removed(hl)

\* With the cursor at i in a file of n lines, some line of hls that takes a
\* position is reached with the cursor at or beyond n.
RECURSIVE LinesOverrun(_, _, _)
LinesOverrun(n, i, hls) ==
    IF hls = <<>> THEN FALSE
    ELSE IF Consumes(Head(hls))
         THEN i >= n \/ LinesOverrun(n, i + 1, Tail(hls))
    ELSE LinesOverrun(n, i, Tail(hls))

\* The same for a sequence of hunks, the lines before each hunk being copied
\* from the cursor up to the hunk's start.
RECURSIVE Overrun(_, _, _)
Overrun(n, i, hunks) ==
    IF hunks = <<>> THEN FALSE
    ELSE \/ i < Head(hunks).source_start - 1
                /\ n < Head(hunks).source_start - 1
         \/ LinesOverrun(n, Max({i, Head(hunks).source_start - 1}),
                         Head(hunks).hunk_lines)
         \/ Overrun(n,
                    Max({i, Head(hunks).source_start - 1})
                        + Len(SelectSeq(Head(hunks).hunk_lines, Consumes)),
                    Tail(hunks))

\* C16: the strict hunk application never moves past the end of the
\* original: when a hunk line that takes an original position (a Context
\* line, a Removed line, or the copy of the lines before the hunk) is reached
\* with the cursor at or beyond the number of original lines, the strict
\* tier fails and the file's content is not a strict result.
C16_NoOverrun ==
    (Returned("diff") /\ call.kind = "producer"
        /\ Overrun(Len(call.original), 0, ret.patch[1].hunks))
        => "strict" \notin TierOf(PathM)

\* Worker w is in /approve with action approve, has found no stored change
\* for its key, and returns in this step.
ReturnsNotFound(w) ==
    /\ reqs[w].kind = "approve" /\ reqs[w].pc = "read_change"
    /\ ~Truthy(reqs[w].response)
    /\ reqs'[w].pc = "idle"

\* Worker w starts on /approve with action approve in this step.
StartsApprove(w) ==
    reqs[w].pc = "idle" /\ reqs'[w].kind = "approve"

\* C17: /approve with action approve for a key with no stored pending change
\* does not touch the commit sink, answers that no change was found, and
\* leaves the pending-change table (and the snapshot table) as it is, for
\* that key and for every other key.
C17_NoChangeFound ==
    [][\A w \in Workers :
          /\ StartsApprove(w)
                => /\ user_terraform_change' = user_terraform_change
                   /\ user_terraform_context' = user_terraform_context
                   /\ sink' = sink
          /\ ReturnsNotFound(w)
                => /\ done'.kind = "approve"
                   /\ done'.result = "no_change_found"
                   /\ ~done'.pushed
                   /\ sink' = sink
                   /\ user_terraform_change' = user_terraform_change
                   /\ user_terraform_context' = user_terraform_context]_vars

\* An approval has returned that found no stored change.
C17_Witness ==
    /\ done.kind = "approve" /\ done.result = "no_change_found"
    /\ ~Truthy(done.response)

=========================================================================
